---- MODULE Spec2Model ----
(***************************************************************************)
(* A model of the piano / sequencer instrument:                            *)
(*   - the frequency calculator (three copies of getNoteFrequency),        *)
(*   - the envelope breakpoints scheduled by the sequencer's playNote,     *)
(*   - the SequencerGrid component (start/stop, the 100 ms scheduler       *)
(*     interval, the animation frame callback, the oscillator registry),   *)
(*   - the recorder dialog (RecordingControls) and the soundboard page     *)
(*     that feeds it.                                                      *)
(* Times are integer milliseconds, levels are integer percent, beats are   *)
(* integers (the grid only produces whole beats).                          *)
(***************************************************************************)
EXTENDS Integers, Sequences, FiniteSets, TLC

VARIABLES
    \* ---- host
    now,                  \* the clock (audioContext.currentTime / Date.now()), ms
    \* ---- SequencerGrid props
    bpm, bars,
    audioContext, gainNode,   \* whether the prop holds an object (FALSE: null)
    \* ---- SequencerGrid React state
    mounted, notes, isPlaying, currentBeat, selectedNote,
    \* ---- SequencerGrid refs
    rafRef, lastTimeRef, schedulerIntervalRef, oscillators,
    \* ---- host objects created by SequencerGrid
    timers,               \* active setInterval timers, each with the closure it runs
    rafPending,           \* requested animation frames, each with its closure
    oscState,             \* oscState[h]: "live", "stopped" (stop() called) or "ended"
    nextNoteId,           \* source of note ids
    starts,               \* number of calls of startSequencer (names its timer and frame)
    \* ---- history
    plays,                \* plays[h]: the h-th call of playNote
    dueAtStop,            \* a tick of the interval was due when stopSequencer ran
    \* ---- PianoSoundboard state and refs
    wallClock,            \* Date.now(), ms
    audioReady, octave, showRecordingModal,
    sbIsRecording,        \* isRecording of PianoSoundboard
    recordedSequence, recordingStartTimeRef,
    \* ---- RecordingControls state and refs (the mounted instance)
    rcIsRecording,        \* isRecording of RecordingControls
    recordedNotes, startTimeRef,
    metronomeEnabled, isMetronomePlaying, metronomeIntervalRef, recordingTimerRef,
    \* ---- host objects created by RecordingControls
    intervals,            \* ids of the active setInterval timers
    globalState,          \* window.__pianoRecordingState
    \* ---- history
    sessions,             \* number of calls of RecordingControls' startRecording
    played,               \* the notifications the recorder received since it started
    completed,            \* the calls of onRecordingComplete since the recorder was started
    heldAtStart,          \* the soundboard's buffer held notes when the recorder was started
    playedAfterStop,      \* a key was played since the completion callback ran
    recordingMetronome,   \* the active interval of the metronome startRecording started
    \* ---- MemStorage
    soundPacks, sounds, reviews, purchases,   \* the maps, as functions from id to record
    soundPackIdCounter, soundIdCounter, reviewIdCounter, purchaseIdCounter,
    \* ---- the HTTP exchange
    response,             \* the last request and the status it was answered with
    \* ---- pure functions under test
    fnIn, fnOut

seqVars == <<bpm, bars, audioContext, gainNode, mounted, notes, isPlaying, currentBeat,
             selectedNote,
             rafRef, lastTimeRef, schedulerIntervalRef, oscillators, timers,
             rafPending, oscState, nextNoteId, starts, plays, dueAtStop>>
recVars == <<wallClock, audioReady, octave, showRecordingModal, sbIsRecording,
             recordedSequence, recordingStartTimeRef, rcIsRecording, recordedNotes,
             startTimeRef, metronomeEnabled, isMetronomePlaying, metronomeIntervalRef,
             recordingTimerRef, intervals, globalState, sessions, played, completed,
             heldAtStart, playedAfterStop, recordingMetronome>>
fnVars == <<fnIn, fnOut>>
storeVars == <<soundPacks, sounds, reviews, purchases, soundPackIdCounter,
               soundIdCounter, reviewIdCounter, purchaseIdCounter, response>>
vars == <<now, seqVars, recVars, fnVars, storeVars>>

\* null refs and "no id": ids are positive, and the code tests refs for truthiness
NULL == 0

\* ------------------------------------------------------------------ bounds
MaxClock == 11
MaxNotes == 2
MaxPlays == 2
MaxStarts == 2
MaxPreviews == 1
MaxRecClock == 3
MaxRecorded == 3
MaxSessions == 2
MaxOctave == 8
MaxUsers == 2
MaxPacks == 2
MaxSounds == 2
MaxReviews == 2
MaxPurchases == 2
MaxBeats == 2
MaxDragCol == 4

\* ------------------------------------------------------- program constants
SchedulerPeriod == 100
lookAheadTime == 100
OscTail == 50
PreviewDuration == 500
DefaultVelocity == 70
DefaultDuration == 1
gridRows == 12
beatDivision == 4
a4Index == 9
a4Octave == 4
a4Frequency == 440
DefaultTempo == 120
DefaultOctave == 4
DefaultPrice == 0
MinBpm == 60
MaxBpm == 180

\* The clock advances in steps of half a scheduler period.
ClockStep == SchedulerPeriod \div 2

\* the grid cells the model clicks: the first two beats of the row of A3
Cols == {0, 1}
Rows == {2}

NOTE_NAMES == <<"C", "C#", "D", "D#", "E", "F", "F#", "G", "G#", "A", "A#", "B">>

\* ============================================================ pure helpers

\* indexOf: the 0-based index of a name in a list, -1 when absent
IndexOf(names, note) ==
    IF \E i \in 1..Len(names) : names[i] = note
    THEN (CHOOSE i \in 1..Len(names) : names[i] = note) - 1
    ELSE -1

\* A frequency a4Frequency * 2^(semis/12) is kept exactly, as the pair
\* (base, semis); base 0 is the frequency 0.
Hz(base, semis) == [base |-> base, semis |-> IF base = 0 THEN 0 ELSE semis]

\* one semitone short per octave
SemitonesElevenPerOctave(noteIndex, oct) == (oct - a4Octave) * 11 + (noteIndex - a4Index)

Semitones(noteIndex, oct) == (oct - a4Octave) * 12 + (noteIndex - a4Index)

\* lib/piano.ts with the index of the name counted from 1
LibGetNoteFrequencyOneBased(note, oct) ==
    LET noteIndex == IndexOf(NOTE_NAMES, note) IN
    IF noteIndex = -1 THEN Hz(0, 0)
    ELSE Hz(a4Frequency, Semitones(noteIndex + 1, oct))

\* lib/piano.ts
LibGetNoteFrequency(note, oct) ==
    LET noteIndex == IndexOf(NOTE_NAMES, note) IN
    IF noteIndex = -1 THEN Hz(0, 0)
    ELSE Hz(a4Frequency, Semitones(noteIndex, oct))

\* pages/PianoSoundboard.tsx
SbGetNoteFrequency(note, oct) ==
    LET noteIndex == IndexOf(NOTE_NAMES, note) IN
    IF noteIndex = -1 THEN Hz(a4Frequency, 0)
    ELSE Hz(a4Frequency, Semitones(noteIndex, oct))

\* pages/SoundPackEditor.tsx
EditorGetNoteFrequency(note, oct) ==
    LET noteIndex == IndexOf(NOTE_NAMES, note) IN
    IF noteIndex = -1 THEN Hz(a4Frequency, 0)
    ELSE Hz(a4Frequency, Semitones(noteIndex, oct))

getRowNote(row) == NOTE_NAMES[(Len(NOTE_NAMES) - 1 - (row % Len(NOTE_NAMES))) + 1]
getRowOctave(row) == 3 + (row \div Len(NOTE_NAMES))

totalBeats(b) == b * 4
gridColumns(b) == (totalBeats(b) * beatDivision) \div 4
beatDuration(tempo) == 60000 \div tempo

\* the envelope playNote applies to every note
SequencerEnvelope == [attack |-> 10, decay |-> 100, sustain |-> 70, release |-> 300]

\* the same schedule with the hold placed at the end of the note
playNoteGainHoldAtEnd(velocity, startTime, duration) ==
    LET envelope == SequencerEnvelope IN
    << [at |-> startTime, gain |-> 0, how |-> "set"],
       [at |-> startTime + envelope.attack, gain |-> velocity * 100, how |-> "ramp"],
       [at |-> startTime + envelope.attack + envelope.decay,
        gain |-> velocity * envelope.sustain, how |-> "ramp"],
       [at |-> startTime + duration,
        gain |-> velocity * envelope.sustain, how |-> "set"],
       [at |-> startTime + duration, gain |-> 0, how |-> "ramp"] >>

\* The gain automation playNote schedules, in call order: the time, the level
\* in 1/10000 (velocity and sustain are percent) and the kind of event.
playNoteGain(velocity, startTime, duration) ==
    LET envelope == SequencerEnvelope IN
    << [at |-> startTime, gain |-> 0, how |-> "set"],
       [at |-> startTime + envelope.attack, gain |-> velocity * 100, how |-> "ramp"],
       [at |-> startTime + envelope.attack + envelope.decay,
        gain |-> velocity * envelope.sustain, how |-> "ramp"],
       [at |-> startTime + duration - envelope.release,
        gain |-> velocity * envelope.sustain, how |-> "set"],
       [at |-> startTime + duration, gain |-> 0, how |-> "ramp"] >>

\* ================================================= SequencerGrid: scheduler

noteStartTime(n, tempo) == n.startTime * beatDuration(tempo)
noteDuration(n, tempo) == n.duration * beatDuration(tempo)

InWindow(n, tempo, currentTime) ==
    /\ noteStartTime(n, tempo) >= currentTime
    /\ noteStartTime(n, tempo) < currentTime + lookAheadTime

\* the notes one run of scheduleNotes hands to playNote, in pattern order
scheduleNotes(closureNotes, tempo, currentTime) ==
    IF ~audioContext \/ ~gainNode
    THEN << >>
    ELSE SelectSeq(closureNotes, LAMBDA n : InWindow(n, tempo, currentTime))

\* one call of playNote, as recorded in plays
PlayRecord(n, by, startTime, duration, session, iter) ==
    [id |-> n.id, by |-> by, start |-> startTime,
     stopAt |-> startTime + duration + OscTail, session |-> session, iter |-> iter,
     freq |-> LibGetNoteFrequency(n.note, n.octave),
     gain |-> playNoteGain(n.velocity, startTime, duration)]

\* oscillators.current.set(note.id, osc) for each new play, in order
Registered(reg, newPlays, base) ==
    LET ids == {newPlays[i].id : i \in 1..Len(newPlays)} IN
    [k \in (DOMAIN reg) \cup ids |->
        IF k \in ids
        THEN base + (CHOOSE i \in 1..Len(newPlays) :
                        /\ newPlays[i].id = k
                        /\ \A j \in 1..Len(newPlays) : newPlays[j].id = k => j <= i)
        ELSE reg[k]]

Removed(reg, k) == [j \in (DOMAIN reg) \ {k} |-> reg[j]]

\* playNote for a sequence of plays
playNotes(newPlays) ==
    /\ Len(plays) + Len(newPlays) <= MaxPlays
    /\ IF ~audioContext \/ ~gainNode
       THEN UNCHANGED <<plays, oscState, oscillators>>
       ELSE /\ plays' = plays \o newPlays
            /\ oscState' = oscState \o [i \in 1..Len(newPlays) |-> "live"]
            /\ oscillators' = Registered(oscillators, newPlays, Len(plays))

\* stopAllNotes: stop every registered oscillator, then clear the registry
stopAllNotes ==
    /\ oscState' = [h \in DOMAIN oscState |->
                      IF /\ \E k \in DOMAIN oscillators : oscillators[k] = h
                         /\ oscState[h] = "live"
                      THEN "stopped" ELSE oscState[h]]
    /\ oscillators' = << >>

Sounding(h) == oscState[h] = "live" /\ now < plays[h].stopAt

\* ------------------------------------------------------------- the handlers

startSequencer ==
    /\ starts < MaxStarts
    /\ IF ~audioContext
       THEN UNCHANGED <<isPlaying, currentBeat, lastTimeRef, rafPending, timers,
                        schedulerIntervalRef>>
       ELSE /\ isPlaying' = TRUE
            /\ currentBeat' = 0
            /\ lastTimeRef' = now
            /\ rafPending' = rafPending \cup
                  {[id |-> starts + 1, isPlaying |-> isPlaying, bpm |-> bpm, bars |-> bars]}
            /\ timers' = timers \cup
                  {[id |-> starts + 1, due |-> now + SchedulerPeriod,
                    notes |-> notes, bpm |-> bpm, bars |-> bars]}
            /\ schedulerIntervalRef' = starts + 1
    /\ starts' = starts + 1
    /\ UNCHANGED <<rafRef, oscillators, oscState, plays, dueAtStop>>

\* mutant: stopSequencer without clearInterval
stopSequencerKeepsInterval ==
    /\ isPlaying' = FALSE
    /\ rafPending' = {f \in rafPending : f.id # rafRef}
    /\ rafRef' = NULL
    /\ timers' = timers
    /\ schedulerIntervalRef' = NULL
    /\ stopAllNotes
    /\ dueAtStop' = \E t \in timers : t.due <= now
    /\ UNCHANGED <<currentBeat, lastTimeRef, starts, plays>>

stopSequencer ==
    /\ isPlaying' = FALSE
    /\ rafPending' = {f \in rafPending : f.id # rafRef}
    /\ rafRef' = NULL
    /\ timers' = {t \in timers : t.id # schedulerIntervalRef}
    /\ schedulerIntervalRef' = NULL
    /\ stopAllNotes
    /\ dueAtStop' = \E t \in timers : t.due <= now
    /\ UNCHANGED <<currentBeat, lastTimeRef, starts, plays>>

\* mutant: togglePlay without its isPlaying test
TogglePlayAlwaysStarts ==
    /\ mounted
    /\ startSequencer
    /\ UNCHANGED <<now, bpm, bars, mounted, notes, selectedNote, nextNoteId, fnVars,
                   recVars, storeVars,
                   audioContext, gainNode>>

TogglePlay ==
    /\ mounted
    /\ IF isPlaying THEN stopSequencer ELSE startSequencer
    /\ UNCHANGED <<now, bpm, bars, mounted, notes, selectedNote, nextNoteId, fnVars,
                   recVars, storeVars,
                   audioContext, gainNode>>

\* the grid row a note block is drawn in, and whether the block covers a cell
rowFromBottom(n) ==
    (Len(NOTE_NAMES) - 1 - IndexOf(NOTE_NAMES, n.note)) + (n.octave - 3) * Len(NOTE_NAMES)
Covers(n, col, row) ==
    /\ rowFromBottom(n) = row
    /\ n.startTime <= col * (4 \div beatDivision)
    /\ col * (4 \div beatDivision) < n.startTime + n.duration

\* addNote: a click on grid cell (col, row)
AddNote(col, row) ==
    /\ mounted
    /\ nextNoteId <= MaxNotes
    /\ col < gridColumns(bars)
    \* a click on a note block selects it and does not reach the grid (stopPropagation)
    /\ ~ \E i \in 1..Len(notes) : Covers(notes[i], col, row)
    /\ LET newNote == [id |-> nextNoteId, note |-> getRowNote(row),
                       octave |-> getRowOctave(row),
                       startTime |-> col * (4 \div beatDivision),
                       duration |-> DefaultDuration, velocity |-> DefaultVelocity]
       IN /\ notes' = Append(notes, newNote)
          /\ selectedNote' = newNote.id
    /\ nextNoteId' = nextNoteId + 1
    /\ UNCHANGED <<now, bpm, bars, mounted, isPlaying, currentBeat, rafRef,
                   lastTimeRef, schedulerIntervalRef, oscillators, timers,
                   rafPending, oscState, starts, plays, dueAtStop, fnVars, recVars,
                   storeVars,
                   audioContext, gainNode>>

\* ---- editing the pattern

\* what playback keeps: nothing of it is touched by an edit of the pattern
playbackVars == <<isPlaying, currentBeat, rafRef, lastTimeRef, schedulerIntervalRef,
                  oscillators, timers, rafPending, oscState, starts, plays, dueAtStop>>

\* a click on note block i
ClickNote(i) ==
    /\ mounted
    /\ i \in 1..Len(notes)
    /\ selectedNote' = notes[i].id
    /\ UNCHANGED <<now, bpm, bars, mounted, notes, nextNoteId, playbackVars, fnVars,
                   recVars, storeVars, audioContext, gainNode>>

\* mutant: deleteNote without the reset of the selection
deleteNoteKeepsSelection(id) ==
    /\ notes' = SelectSeq(notes, LAMBDA n : n.id # id)
    /\ selectedNote' = selectedNote

deleteNote(id) ==
    /\ notes' = SelectSeq(notes, LAMBDA n : n.id # id)
    /\ selectedNote' = IF selectedNote = id THEN NULL ELSE selectedNote

\* the delete button, drawn on the selected note block only
DeleteNote(i) ==
    /\ mounted
    /\ i \in 1..Len(notes)
    /\ notes[i].id = selectedNote
    /\ deleteNote(notes[i].id)
    /\ UNCHANGED <<now, bpm, bars, mounted, nextNoteId, playbackVars, fnVars,
                   recVars, storeVars, audioContext, gainNode>>

\* clearPattern, with the confirmation accepted
ClearPattern ==
    /\ mounted
    /\ notes' = << >>
    /\ selectedNote' = NULL
    /\ UNCHANGED <<now, bpm, bars, mounted, nextNoteId, playbackVars, fnVars,
                   recVars, storeVars, audioContext, gainNode>>

\* handleDragStart and one mousemove of the drag: the block's left edge is over
\* column col (counted from the grid's left edge, never below 0) and its top
\* edge over row rowFromTop (kept within the grid)
Drag(i, col, rowFromTop) ==
    /\ mounted
    /\ i \in 1..Len(notes)
    /\ selectedNote' = notes[i].id
    /\ LET Moved(n) == [n EXCEPT !.note = getRowNote(gridRows - rowFromTop - 1),
                                 !.octave = getRowOctave(gridRows - rowFromTop - 1),
                                 !.startTime = col * (4 \div beatDivision)]
       IN notes' = [k \in 1..Len(notes) |->
                        IF notes[k].id = notes[i].id THEN Moved(notes[k]) ELSE notes[k]]
    /\ UNCHANGED <<now, bpm, bars, mounted, nextNoteId, playbackVars, fnVars,
                   recVars, storeVars, audioContext, gainNode>>

\* the maximum of two numbers
Max(a, b) == IF a >= b THEN a ELSE b

\* handleResizeStart and one mousemove of the resize: the block is pulled to a
\* width of `cells` grid cells (never less than one); the handle is drawn on
\* the selected block only
Resize(i, cells) ==
    /\ mounted
    /\ i \in 1..Len(notes)
    /\ notes[i].id = selectedNote
    /\ LET newDuration == Max(4 \div beatDivision, Max(1, cells) * (4 \div beatDivision))
           Resized(n) == [n EXCEPT !.duration = newDuration]
       IN notes' = [k \in 1..Len(notes) |->
                        IF notes[k].id = notes[i].id THEN Resized(notes[k]) ELSE notes[k]]
    /\ UNCHANGED <<now, bpm, bars, mounted, selectedNote, nextNoteId, playbackVars,
                   fnVars, recVars, storeVars, audioContext, gainNode>>

\* the Bars selector of the Sequencer page
BarsChoices == {1, 2, 4, 8}

SetBars(b) ==
    /\ mounted
    /\ bars' = b
    /\ UNCHANGED <<now, bpm, mounted, notes, selectedNote, nextNoteId, playbackVars,
                   fnVars, recVars, storeVars, audioContext, gainNode>>

\* a double click on note block i: select it and play it for half a second
Preview(i) ==
    /\ mounted
    /\ i \in 1..Len(notes)
    /\ Cardinality({h \in DOMAIN plays : plays[h].by = "preview"}) < MaxPreviews
    /\ selectedNote' = notes[i].id
    /\ playNotes(<<PlayRecord(notes[i], "preview", now, PreviewDuration, 0, 0)>>)
    /\ UNCHANGED <<now, bpm, bars, mounted, notes, isPlaying, currentBeat, rafRef,
                   lastTimeRef, schedulerIntervalRef, timers, rafPending,
                   nextNoteId, starts, dueAtStop, fnVars, recVars, storeVars,
                   audioContext, gainNode>>

\* setInterval: the next nominal firing time after a callback that ran at currentTime
NextDue(due, currentTime) ==
    due + SchedulerPeriod * (((currentTime - due) \div SchedulerPeriod) + 1)

\* the playthrough (loop iteration) the playback clock is in
Playthrough(t) == (now - lastTimeRef) \div (totalBeats(t.bars) * beatDuration(t.bpm))

\* one firing of a scheduler interval: the scheduleNotes of the render that
\* called startSequencer
Tick(t) ==
    /\ t \in timers
    /\ now >= t.due
    /\ LET due == scheduleNotes(t.notes, t.bpm, now)
           newPlays == [i \in 1..Len(due) |->
                          PlayRecord(due[i], "sched", noteStartTime(due[i], t.bpm),
                                     noteDuration(due[i], t.bpm), t.id, Playthrough(t))]
       IN playNotes(newPlays)
    /\ timers' = (timers \ {t}) \cup {[t EXCEPT !.due = NextDue(t.due, now)]}
    /\ UNCHANGED <<now, bpm, bars, mounted, notes, isPlaying, currentBeat,
                   selectedNote, rafRef, lastTimeRef, schedulerIntervalRef,
                   rafPending, nextNoteId, starts, dueAtStop, fnVars, recVars, storeVars,
                   audioContext, gainNode>>

\* playStep, run by the host for a requested animation frame
Frame(f) ==
    /\ f \in rafPending
    /\ IF f.isPlaying /\ audioContext /\ mounted
       THEN /\ currentBeat' = (((now - lastTimeRef) * 1000) \div beatDuration(f.bpm))
                                 % (totalBeats(f.bars) * 1000)
            /\ rafRef' = f.id
            /\ rafPending' = rafPending
       ELSE /\ rafPending' = rafPending \ {f}
            /\ UNCHANGED <<currentBeat, rafRef>>
    /\ UNCHANGED <<now, bpm, bars, mounted, notes, isPlaying, selectedNote,
                   lastTimeRef, schedulerIntervalRef, oscillators, timers,
                   oscState, nextNoteId, starts, plays, dueAtStop, fnVars, recVars,
                   storeVars,
                   audioContext, gainNode>>

\* osc.onended, after the oscillator stopped or was stopped
OscEnded(h) ==
    /\ h \in DOMAIN oscState
    /\ \/ oscState[h] = "stopped"
       \/ oscState[h] = "live" /\ now >= plays[h].stopAt
    /\ oscState' = [oscState EXCEPT ![h] = "ended"]
    /\ oscillators' = Removed(oscillators, plays[h].id)
    /\ UNCHANGED <<now, bpm, bars, mounted, notes, isPlaying, currentBeat,
                   selectedNote, rafRef, lastTimeRef, schedulerIntervalRef, timers,
                   rafPending, nextNoteId, starts, plays, dueAtStop, fnVars, recVars,
                   storeVars,
                   audioContext, gainNode>>

\* The host's timing: the display runs a requested frame within a clock step,
\* an "ended" event is delivered within a clock step, and an interval callback
\* runs at most MaxLate after its nominal time (so it may be on time, late, or
\* so late that the following nominal firing is coalesced into it; the callback
\* after a late one comes early, less than a period later).
MaxLate == SchedulerPeriod

AdvanceClock ==
    /\ now < MaxClock * ClockStep
    /\ rafPending = {}
    /\ \A t \in timers : now + ClockStep <= t.due + MaxLate
    /\ \A h \in DOMAIN oscState :
          /\ oscState[h] # "stopped"
          /\ oscState[h] = "live" => now < plays[h].stopAt
    /\ now' = now + ClockStep
    /\ UNCHANGED <<seqVars, fnVars, recVars, storeVars>>

\* leaving the Sequencer page: the grid's unmount cleanup, then the page closes
\* the audio context (which silences and releases every oscillator)
Unmount ==
    /\ mounted
    /\ mounted' = FALSE
    /\ isPlaying' = FALSE
    /\ rafPending' = {f \in rafPending : f.id # rafRef}
    /\ timers' = {t \in timers : t.id # schedulerIntervalRef}
    /\ oscillators' = << >>
    /\ oscState' = [h \in DOMAIN oscState |-> "ended"]
    /\ UNCHANGED <<now, bpm, bars, notes, currentBeat, selectedNote, rafRef,
                   lastTimeRef, schedulerIntervalRef, nextNoteId, starts, plays,
                   dueAtStop, fnVars, recVars, storeVars,
                   audioContext, gainNode>>

\* SequencerGrid after its first render, whatever the audio props hold
GridInit ==
    /\ now = 0
    /\ bpm = 120
    /\ bars = 1
    /\ mounted = TRUE
    /\ notes = << >>
    /\ isPlaying = FALSE
    /\ currentBeat = 0
    /\ selectedNote = NULL
    /\ rafRef = NULL
    /\ lastTimeRef = 0
    /\ schedulerIntervalRef = NULL
    /\ oscillators = << >>
    /\ timers = {}
    /\ rafPending = {}
    /\ oscState = << >>
    /\ nextNoteId = 1
    /\ starts = 0
    /\ plays = << >>
    /\ dueAtStop = FALSE

\* the Sequencer page renders the grid only once it holds both audio objects
SeqInit ==
    /\ GridInit
    /\ audioContext = TRUE
    /\ gainNode = TRUE

\* the functions are not being applied
FnNone == [kind |-> "none"]

\* ====================================== PianoSoundboard + RecordingControls

RecStep == 10 * ClockStep
PageLoadTime == 20 * ClockStep
RecNoteNames == {"C", "A"}

\* the object stored in window.__pianoRecordingState
GlobalRecord(rec, buf, start, metro) ==
    [isRecording |-> rec, recordedNotes |-> buf, startTime |-> start,
     metronomeEnabled |-> metro, tempo |-> DefaultTempo]

\* the id window.setInterval returns: one that names no active timer
NewInterval(active) ==
    CHOOSE i \in 1..(Cardinality(active) + 1) :
        i \notin active /\ \A j \in 1..(i - 1) : j \in active

\* the state of a RecordingControls instance that was just constructed
RcFresh ==
    /\ rcIsRecording' = FALSE
    /\ recordedNotes' = << >>
    /\ startTimeRef' = NULL
    /\ metronomeEnabled' = FALSE
    /\ isMetronomePlaying' = FALSE
    /\ metronomeIntervalRef' = NULL
    /\ recordingTimerRef' = NULL

\* mutant: the Record button opens the dialog also while the soundboard records
OpenRecordingModalWhileRecording ==
    /\ ~showRecordingModal
    /\ showRecordingModal' = TRUE
    /\ RcFresh
    /\ globalState' = << GlobalRecord(FALSE, << >>, NULL, FALSE) >>
    /\ UNCHANGED <<wallClock, audioReady, octave, sbIsRecording, recordedSequence,
                   recordingStartTimeRef, intervals, sessions, played, completed,
                   heldAtStart, playedAfterStop, recordingMetronome>>
    /\ UNCHANGED <<now, seqVars, fnVars, storeVars>>

\* the Record button of the soundboard mounts the dialog; on mount the effect
\* that publishes the state runs before the effect that would read it back
OpenRecordingModal ==
    /\ ~showRecordingModal /\ ~sbIsRecording
    /\ showRecordingModal' = TRUE
    /\ RcFresh
    /\ globalState' = << GlobalRecord(FALSE, << >>, NULL, FALSE) >>
    /\ UNCHANGED <<wallClock, audioReady, octave, sbIsRecording, recordedSequence,
                   recordingStartTimeRef, intervals, sessions, played, completed,
                   heldAtStart, playedAfterStop, recordingMetronome>>
    /\ UNCHANGED <<now, seqVars, fnVars, storeVars>>

\* closing the dialog unmounts it; the cleanup keeps the timers of a running
\* recording
handleModalClose ==
    /\ showRecordingModal
    /\ showRecordingModal' = FALSE
    /\ intervals' = IF ~rcIsRecording
                    THEN intervals \ {metronomeIntervalRef, recordingTimerRef}
                    ELSE intervals
    /\ RcFresh
    /\ UNCHANGED <<wallClock, audioReady, octave, sbIsRecording, recordedSequence,
                   recordingStartTimeRef, globalState, sessions, played, completed,
                   heldAtStart, playedAfterStop, recordingMetronome>>
    /\ UNCHANGED <<now, seqVars, fnVars, storeVars>>

\* mutant: the soundboard's listener without setRecordedSequence
handleStartRecordingKeepsSequence(eventNotes) ==
    /\ recordedSequence' = recordedSequence
    /\ sbIsRecording' = TRUE
    /\ recordingStartTimeRef' = wallClock

\* the soundboard's listener for 'piano:start-recording'
handleStartRecording(eventNotes) ==
    /\ recordedSequence' = eventNotes
    /\ sbIsRecording' = TRUE
    /\ recordingStartTimeRef' = wallClock

\* startRecording of RecordingControls, which emits 'piano:start-recording'
RcStartRecording ==
    /\ showRecordingModal /\ ~rcIsRecording
    /\ sessions < MaxSessions
    /\ LET timerId == NewInterval(intervals)
           metroId == NewInterval(intervals \cup {timerId})
           startsMetronome == metronomeEnabled /\ ~isMetronomePlaying
       IN /\ recordedNotes' = << >>
          /\ startTimeRef' = wallClock
          /\ rcIsRecording' = TRUE
          /\ globalState' = << GlobalRecord(TRUE, << >>, wallClock, metronomeEnabled) >>
          /\ handleStartRecording(<< >>)
          /\ recordingTimerRef' = timerId
          /\ metronomeIntervalRef' = IF startsMetronome THEN metroId
                                     ELSE metronomeIntervalRef
          /\ isMetronomePlaying' = (isMetronomePlaying \/ startsMetronome)
          /\ intervals' = intervals \cup {timerId}
                             \cup (IF startsMetronome THEN {metroId} ELSE {})
    /\ sessions' = sessions + 1
    /\ played' = << >>
    /\ completed' = << >>
    /\ heldAtStart' = (recordedSequence # << >>)
    /\ playedAfterStop' = FALSE
    /\ recordingMetronome' = IF metronomeEnabled /\ ~isMetronomePlaying
                             THEN metronomeIntervalRef' ELSE NULL
    /\ UNCHANGED <<wallClock, audioReady, octave, showRecordingModal,
                   metronomeEnabled>>
    /\ UNCHANGED <<now, seqVars, fnVars, storeVars>>

\* the listener of RecordingControls for 'piano:add-note'
handleNoteAddedKeepsLast(prev, newNote) ==
    IF rcIsRecording /\ startTimeRef # NULL THEN << newNote >> ELSE prev

handleNoteAdded(prev, newNote) ==
    IF rcIsRecording /\ startTimeRef # NULL THEN Append(prev, newNote) ELSE prev

\* mutant: recordNoteIfRecording without its isRecording test
recordNoteIfRecordingUnguarded(note) ==
    IF TRUE
    THEN LET recordedNote == [note |-> note, octave |-> octave,
                              time |-> wallClock - recordingStartTimeRef]
         IN /\ Len(recordedSequence) < MaxRecorded
            /\ recordedSequence' = Append(recordedSequence, recordedNote)
            /\ IF showRecordingModal
               THEN /\ recordedNotes' = handleNoteAdded(recordedNotes, recordedNote)
                    /\ globalState' = << GlobalRecord(rcIsRecording, recordedNotes',
                                                      startTimeRef, metronomeEnabled) >>
                    /\ played' = IF rcIsRecording
                                 THEN Append(played, [note |-> note, octave |-> octave,
                                                      time |-> wallClock - startTimeRef])
                                 ELSE played
               ELSE UNCHANGED <<recordedNotes, globalState, played>>
    ELSE UNCHANGED <<recordedSequence, recordedNotes, globalState, played>>

\* recordNoteIfRecording of the soundboard
recordNoteIfRecording(note) ==
    IF sbIsRecording /\ recordingStartTimeRef # NULL
    THEN LET recordedNote == [note |-> note, octave |-> octave,
                              time |-> wallClock - recordingStartTimeRef]
         IN /\ Len(recordedSequence) < MaxRecorded
            /\ recordedSequence' = Append(recordedSequence, recordedNote)
            /\ IF showRecordingModal
               THEN /\ recordedNotes' = handleNoteAdded(recordedNotes, recordedNote)
                    /\ globalState' = << GlobalRecord(rcIsRecording, recordedNotes',
                                                      startTimeRef, metronomeEnabled) >>
                    /\ played' = IF rcIsRecording
                                 THEN Append(played, [note |-> note, octave |-> octave,
                                                      time |-> wallClock - startTimeRef])
                                 ELSE played
               ELSE UNCHANGED <<recordedNotes, globalState, played>>
    ELSE UNCHANGED <<recordedSequence, recordedNotes, globalState, played>>

\* playNote of the soundboard (synthesized sound): a key of the piano grid
SbPlayNote(note) ==
    /\ IF ~audioReady
       THEN /\ audioReady' = TRUE
            /\ UNCHANGED <<recordedSequence, recordedNotes, globalState, played>>
       ELSE /\ recordNoteIfRecording(note)
            /\ UNCHANGED audioReady
    /\ UNCHANGED <<wallClock, octave, showRecordingModal, sbIsRecording,
                   recordingStartTimeRef, rcIsRecording, startTimeRef, metronomeEnabled,
                   isMetronomePlaying, metronomeIntervalRef, recordingTimerRef,
                   intervals, sessions, completed, heldAtStart,
                   recordingMetronome>>
    /\ playedAfterStop' = (playedAfterStop \/ (audioReady /\ completed # << >>))
    /\ UNCHANGED <<now, seqVars, fnVars, storeVars>>

\* stopRecording of RecordingControls, with the soundboard's listener for
\* 'piano:stop-recording' and handleRecordingComplete, which closes the dialog;
\* the cleanup of the unmounted dialog still sees isRecording = true
RcStopRecording ==
    /\ showRecordingModal /\ rcIsRecording
    /\ globalState' = IF globalState = << >> THEN globalState
                      ELSE << [globalState[1] EXCEPT !.isRecording = FALSE] >>
    /\ recordingStartTimeRef' = NULL
    /\ intervals' = (intervals \ {recordingTimerRef})
                       \ (IF isMetronomePlaying /\ ~metronomeEnabled
                          THEN {metronomeIntervalRef} ELSE {})
    /\ completed' = Append(completed, [notes |-> recordedNotes, heard |-> played])
    /\ recordedSequence' = recordedNotes
    /\ sbIsRecording' = FALSE
    /\ showRecordingModal' = FALSE
    /\ RcFresh
    /\ UNCHANGED <<wallClock, audioReady, octave, sessions, played,
                   heldAtStart, playedAfterStop>>
    /\ UNCHANGED <<now, seqVars, fnVars, storeVars>>
    /\ recordingMetronome' = IF recordingMetronome \in intervals'
                             THEN recordingMetronome ELSE NULL

\* stopRecording of the soundboard: its Stop Recording button
SbStopRecording ==
    /\ sbIsRecording
    /\ sbIsRecording' = FALSE
    /\ recordingStartTimeRef' = NULL
    /\ globalState' = IF globalState = << >> THEN globalState
                      ELSE << [globalState[1] EXCEPT !.isRecording = FALSE] >>
    /\ UNCHANGED <<wallClock, audioReady, octave, showRecordingModal, recordedSequence,
                   rcIsRecording, recordedNotes, startTimeRef, metronomeEnabled,
                   isMetronomePlaying, metronomeIntervalRef, recordingTimerRef,
                   intervals, sessions, played, completed,
                   heldAtStart, playedAfterStop, recordingMetronome>>
    /\ UNCHANGED <<now, seqVars, fnVars, storeVars>>

\* toggleMetronome: stopMetronome or startMetronome(tempo)
toggleMetronome ==
    /\ showRecordingModal
    /\ IF isMetronomePlaying
       THEN /\ intervals' = intervals \ {metronomeIntervalRef}
            /\ metronomeIntervalRef' = NULL
            /\ isMetronomePlaying' = FALSE
       ELSE /\ metronomeIntervalRef' = NewInterval(intervals)
            /\ intervals' = intervals \cup {metronomeIntervalRef'}
            /\ isMetronomePlaying' = TRUE
    /\ UNCHANGED <<wallClock, audioReady, octave, showRecordingModal, sbIsRecording,
                   recordedSequence, recordingStartTimeRef, rcIsRecording, recordedNotes,
                   startTimeRef, metronomeEnabled, recordingTimerRef, globalState,
                   sessions, played, completed,
                   heldAtStart, playedAfterStop>>
    /\ UNCHANGED <<now, seqVars, fnVars, storeVars>>
    /\ recordingMetronome' = IF recordingMetronome \in intervals'
                             THEN recordingMetronome ELSE NULL

\* the "with recording" switch: setMetronomeEnabled, then the publishing effect
setMetronomeEnabled ==
    /\ showRecordingModal
    /\ metronomeEnabled' = ~metronomeEnabled
    /\ globalState' = << GlobalRecord(rcIsRecording, recordedNotes, startTimeRef,
                                      metronomeEnabled') >>
    /\ UNCHANGED <<wallClock, audioReady, octave, showRecordingModal, sbIsRecording,
                   recordedSequence, recordingStartTimeRef, rcIsRecording, recordedNotes,
                   startTimeRef, isMetronomePlaying, metronomeIntervalRef,
                   recordingTimerRef, intervals, sessions, played, completed,
                   heldAtStart, playedAfterStop, recordingMetronome>>
    /\ UNCHANGED <<now, seqVars, fnVars, storeVars>>

\* Date.now() moves on
RecAdvance ==
    /\ wallClock < PageLoadTime + MaxRecClock * RecStep
    /\ wallClock' = wallClock + RecStep
    /\ UNCHANGED <<audioReady, octave, showRecordingModal, sbIsRecording,
                   recordedSequence, recordingStartTimeRef, rcIsRecording, recordedNotes,
                   startTimeRef, metronomeEnabled, isMetronomePlaying,
                   metronomeIntervalRef, recordingTimerRef, intervals, globalState,
                   sessions, played, completed,
                   heldAtStart, playedAfterStop, recordingMetronome>>
    /\ UNCHANGED <<now, seqVars, fnVars, storeVars>>

RecInit ==
    /\ wallClock = PageLoadTime
    /\ audioReady = FALSE
    /\ octave = DefaultOctave
    /\ showRecordingModal = FALSE
    /\ sbIsRecording = FALSE
    /\ recordedSequence = << >>
    /\ recordingStartTimeRef = NULL
    /\ rcIsRecording = FALSE
    /\ recordedNotes = << >>
    /\ startTimeRef = NULL
    /\ metronomeEnabled = FALSE
    /\ isMetronomePlaying = FALSE
    /\ metronomeIntervalRef = NULL
    /\ recordingTimerRef = NULL
    /\ intervals = {}
    /\ globalState = << >>
    /\ sessions = 0
    /\ played = << >>
    /\ completed = << >>
    /\ heldAtStart = FALSE
    /\ playedAfterStop = FALSE
    /\ recordingMetronome = NULL

\* ================================================= the store and its routes

UserIds == 1..MaxUsers
PackIds == 1..MaxPacks
SoundIds == 1..MaxSounds
Prices == {DefaultPrice, 499}
RatingValues == {1, 2, 5}

\* a map without the given keys
Without(map, keys) == [k \in (DOMAIN map) \ keys |-> map[k]]
\* a map with one more entry
With(map, k, v) == [j \in (DOMAIN map) \cup {k} |-> IF j = k THEN v ELSE map[j]]

\* { ...record, ...updates } over the fields the model keeps
Spread(record, updates) ==
    [f \in DOMAIN record |-> IF f \in DOMAIN updates THEN updates[f] ELSE record[f]]

\* Math.round of total / count for count > 0 (halves go up)
RoundedMean(total, count) == (2 * total + count) \div (2 * count)

RECURSIVE SumRatings(_, _)
SumRatings(revs, ids) ==
    IF ids = {} THEN 0
    ELSE LET i == CHOOSE j \in ids : TRUE
         IN revs[i].rating + SumRatings(revs, ids \ {i})

getSoundsByPackId(snds, packId) == {i \in DOMAIN snds : snds[i].packId = packId}
getReviewsByPackId(revs, packId) == {i \in DOMAIN revs : revs[i].packId = packId}
getUserPurchases(userId) == {i \in DOMAIN purchases : purchases[i].userId = userId}

\* mutant: hasPurchased that finds nothing
hasPurchasedNever(userId, packId) == FALSE

hasPurchased(userId, packId) ==
    \E i \in getUserPurchases(userId) : purchases[i].packId = packId

updateSoundPack(packs, id, updates) ==
    IF id \notin DOMAIN packs THEN packs
    ELSE [packs EXCEPT ![id] = Spread(@, updates)]

updateSound(snds, id, updates) ==
    IF id \notin DOMAIN snds THEN snds
    ELSE [snds EXCEPT ![id] = Spread(@, updates)]

\* the exchange: the route, the status of the answer, and in a and b the ids the
\* request named or, for a delete, the number of sounds it removed
Respond(op, status, a, b) == response' = [op |-> op, status |-> status, a |-> a, b |-> b]

\* POST /soundpacks
PostSoundPack(price) ==
    /\ soundPackIdCounter <= MaxPacks
    /\ soundPacks' = With(soundPacks, soundPackIdCounter,
                          [price |-> price, downloads |-> 0, rating |-> 0])
    /\ soundPackIdCounter' = soundPackIdCounter + 1
    /\ Respond("POST soundpack", 201, soundPackIdCounter, 0)
    /\ UNCHANGED <<sounds, reviews, purchases, soundIdCounter, reviewIdCounter,
                   purchaseIdCounter>>
    /\ UNCHANGED <<now, seqVars, recVars, fnVars>>

\* PATCH /soundpacks/:id with the request body as the updates
PatchSoundPack(id, updates) ==
    /\ IF id \notin DOMAIN soundPacks
       THEN /\ Respond("PATCH soundpack", 404, id, 0)
            /\ UNCHANGED soundPacks
       ELSE /\ soundPacks' = updateSoundPack(soundPacks, id, updates)
            /\ Respond("PATCH soundpack", 200, id, 0)
    /\ UNCHANGED <<sounds, reviews, purchases, soundPackIdCounter, soundIdCounter,
                   reviewIdCounter, purchaseIdCounter>>
    /\ UNCHANGED <<now, seqVars, recVars, fnVars>>

\* mutant: deleteSoundPack without the loop over the pack's sounds
deleteSoundPackKeepsSounds(id) ==
    /\ sounds' = sounds
    /\ soundPacks' = Without(soundPacks, {id})

\* MemStorage.deleteSoundPack
deleteSoundPack(id) ==
    /\ sounds' = Without(sounds, getSoundsByPackId(sounds, id))
    /\ soundPacks' = Without(soundPacks, {id})

\* DELETE /soundpacks/:id
DeleteSoundPack(id) ==
    /\ deleteSoundPack(id)
    /\ Respond("DELETE soundpack", IF id \in DOMAIN soundPacks THEN 200 ELSE 404, id,
               Cardinality(getSoundsByPackId(sounds, id)))
    /\ UNCHANGED <<reviews, purchases, soundPackIdCounter, soundIdCounter,
                   reviewIdCounter, purchaseIdCounter>>
    /\ UNCHANGED <<now, seqVars, recVars, fnVars>>

\* POST /soundpacks/:packId/sounds
PostSound(packId) ==
    /\ soundIdCounter <= MaxSounds
    /\ IF packId \notin DOMAIN soundPacks
       THEN /\ Respond("POST sound", 404, packId, 0)
            /\ UNCHANGED <<sounds, soundIdCounter>>
       ELSE /\ sounds' = With(sounds, soundIdCounter, [packId |-> packId])
            /\ soundIdCounter' = soundIdCounter + 1
            /\ Respond("POST sound", 201, packId, soundIdCounter)
    /\ UNCHANGED <<soundPacks, reviews, purchases, soundPackIdCounter,
                   reviewIdCounter, purchaseIdCounter>>
    /\ UNCHANGED <<now, seqVars, recVars, fnVars>>

\* PATCH /sounds/:id with the request body as the updates
PatchSound(id, updates) ==
    /\ IF id \notin DOMAIN sounds
       THEN /\ Respond("PATCH sound", 404, id, 0)
            /\ UNCHANGED sounds
       ELSE /\ sounds' = updateSound(sounds, id, updates)
            /\ Respond("PATCH sound", 200, id, 0)
    /\ UNCHANGED <<soundPacks, reviews, purchases, soundPackIdCounter, soundIdCounter,
                   reviewIdCounter, purchaseIdCounter>>
    /\ UNCHANGED <<now, seqVars, recVars, fnVars>>

\* DELETE /sounds/:id
DeleteSound(id) ==
    /\ sounds' = Without(sounds, {id})
    /\ Respond("DELETE sound", IF id \in DOMAIN sounds THEN 200 ELSE 404, id, 0)
    /\ UNCHANGED <<soundPacks, reviews, purchases, soundPackIdCounter, soundIdCounter,
                   reviewIdCounter, purchaseIdCounter>>
    /\ UNCHANGED <<now, seqVars, recVars, fnVars>>

\* MemStorage.createReview: store the review, then set the pack's rating to the
\* rounded mean of the pack's reviews
createReview(packId, rating) ==
    /\ reviews' = With(reviews, reviewIdCounter, [packId |-> packId, rating |-> rating])
    /\ reviewIdCounter' = reviewIdCounter + 1
    /\ LET packReviews == getReviewsByPackId(reviews', packId)
           totalRating == SumRatings(reviews', packReviews)
           averageRating == RoundedMean(totalRating, Cardinality(packReviews))
       IN soundPacks' = updateSoundPack(soundPacks, packId, [rating |-> averageRating])

\* POST /soundpacks/:packId/reviews
PostReview(packId, rating) ==
    /\ reviewIdCounter <= MaxReviews
    /\ IF packId \notin DOMAIN soundPacks
       THEN /\ Respond("POST review", 404, packId, 0)
            /\ UNCHANGED <<reviews, reviewIdCounter, soundPacks>>
       ELSE /\ createReview(packId, rating)
            /\ Respond("POST review", 201, packId, reviewIdCounter)
    /\ UNCHANGED <<sounds, purchases, soundPackIdCounter, soundIdCounter,
                   purchaseIdCounter>>
    /\ UNCHANGED <<now, seqVars, recVars, fnVars>>

\* MemStorage.createPurchase: store the purchase, then count the download
createPurchase(userId, packId, price) ==
    /\ purchases' = With(purchases, purchaseIdCounter,
                         [userId |-> userId, packId |-> packId, price |-> price])
    /\ purchaseIdCounter' = purchaseIdCounter + 1
    /\ soundPacks' = IF packId \in DOMAIN soundPacks
                     THEN updateSoundPack(soundPacks, packId,
                                          [downloads |-> soundPacks[packId].downloads + 1])
                     ELSE soundPacks

\* POST /users/:userId/purchases
PostPurchase(userId, packId) ==
    /\ purchaseIdCounter <= MaxPurchases
    /\ IF hasPurchased(userId, packId)
       THEN /\ Respond("POST purchase", 400, userId, packId)
            /\ UNCHANGED <<purchases, purchaseIdCounter, soundPacks>>
       ELSE IF packId \notin DOMAIN soundPacks
       THEN /\ Respond("POST purchase", 404, userId, packId)
            /\ UNCHANGED <<purchases, purchaseIdCounter, soundPacks>>
       ELSE /\ createPurchase(userId, packId, soundPacks[packId].price)
            /\ Respond("POST purchase", 201, userId, packId)
    /\ UNCHANGED <<sounds, reviews, soundPackIdCounter, soundIdCounter,
                   reviewIdCounter>>
    /\ UNCHANGED <<now, seqVars, recVars, fnVars>>

\* new MemStorage(), before any request
StoreInit ==
    /\ soundPacks = << >>
    /\ sounds = << >>
    /\ reviews = << >>
    /\ purchases = << >>
    /\ soundPackIdCounter = 1
    /\ soundIdCounter = 1
    /\ reviewIdCounter = 1
    /\ purchaseIdCounter = 1
    /\ response = [op |-> "none", status |-> 0, a |-> 0, b |-> 0]

FnIdle == fnIn = FnNone /\ fnOut = FnNone

Init == SeqInit /\ RecInit /\ FnIdle /\ StoreInit

Next ==
    \/ TogglePlay
    \/ \E col \in Cols, row \in Rows : AddNote(col, row)
    \/ \E t \in timers : Tick(t)
    \/ \E f \in rafPending : Frame(f)
    \/ \E h \in 1..MaxPlays : OscEnded(h)
    \/ AdvanceClock
    \/ Unmount

Spec == Init /\ [][Next]_vars

\* the same, with the double-click preview of note blocks
NextPreview ==
    \/ Next
    \/ \E i \in 1..MaxNotes : Preview(i)

SpecPreview == Init /\ [][NextPreview]_vars

\* ---- editing the pattern of a stopped sequencer
\* where a drag ends: over the first column, or over the column one past the
\* grid of a one-bar pattern, four rows from the top
DragCols == {0, MaxDragCol}
DragRows == {gridRows - 4}

NextEdit ==
    \/ \E col \in Cols, row \in Rows : AddNote(col, row)
    \/ \E i \in 1..MaxNotes : ClickNote(i)
    \/ \E i \in 1..MaxNotes : DeleteNote(i)
    \/ ClearPattern
    \/ \E i \in 1..MaxNotes, col \in DragCols, row \in DragRows : Drag(i, col, row)
    \/ \E i \in 1..MaxNotes, cells \in {0, MaxBeats} : Resize(i, cells)
    \/ \E b \in BarsChoices : SetBars(b)

SpecEdit == Init /\ [][NextEdit]_vars

\* ---- the store behind the REST API; a handler runs to its response before
\* the next request is taken up (MemStorage never waits for I/O)

\* packs, their sounds
NextCatalog ==
    \/ \E price \in Prices : PostSoundPack(price)
    \/ \E id \in PackIds : DeleteSoundPack(id)
    \/ \E packId \in PackIds : PostSound(packId)
    \/ \E id \in SoundIds, packId \in PackIds : PatchSound(id, [packId |-> packId])
    \/ \E id \in SoundIds : DeleteSound(id)

SpecCatalog == Init /\ [][NextCatalog]_vars

\* packs, their purchases
NextPurchases ==
    \/ \E price \in Prices : PostSoundPack(price)
    \/ \E id \in PackIds : DeleteSoundPack(id)
    \/ \E userId \in UserIds, packId \in PackIds : PostPurchase(userId, packId)

SpecPurchases == Init /\ [][NextPurchases]_vars

\* packs, their rating, their reviews
NextReviews ==
    \/ \E price \in Prices : PostSoundPack(price)
    \/ \E id \in PackIds, r \in RatingValues : PatchSoundPack(id, [rating |-> r])
    \/ \E id \in PackIds : DeleteSoundPack(id)
    \/ \E packId \in PackIds, r \in RatingValues : PostReview(packId, r)

SpecReviews == Init /\ [][NextReviews]_vars

\* the grid rendered with any combination of its two nullable audio props
InitSink ==
    /\ GridInit
    /\ audioContext \in BOOLEAN
    /\ gainNode \in BOOLEAN
    /\ RecInit
    /\ FnIdle
    /\ StoreInit

SpecSink == InitSink /\ [][NextPreview]_vars

\* ------------------------------------------------- the recorder on its own
NextRec ==
    \/ OpenRecordingModal
    \/ handleModalClose
    \/ RcStartRecording
    \/ RcStopRecording
    \/ SbStopRecording
    \/ \E note \in RecNoteNames : SbPlayNote(note)
    \/ RecAdvance

SpecRec == Init /\ [][NextRec]_vars

\* ------------------------------------- the recorder dialog and its metronome
NextMetronome ==
    \/ OpenRecordingModal
    \/ handleModalClose
    \/ RcStartRecording
    \/ RcStopRecording
    \/ SbStopRecording
    \/ toggleMetronome
    \/ setMetronomeEnabled

SpecMetronome == Init /\ [][NextMetronome]_vars

\* ---- looped playback of a one-note pattern with every tick exactly on time
LoopSeconds == 10
LoopHorizon == LoopSeconds * 1000

LoopAddNote ==
    /\ notes = << >>
    /\ AddNote(0, 2)

LoopStart ==
    /\ notes # << >>
    /\ ~isPlaying
    /\ TogglePlay

LoopTick(t) ==
    /\ now = t.due
    /\ Tick(t)

LoopAdvance ==
    /\ IF isPlaying THEN now - lastTimeRef < LoopHorizon ELSE now < MaxClock * ClockStep
    /\ rafPending = {}
    /\ \A t \in timers : now < t.due
    /\ now' = now + ClockStep
    /\ UNCHANGED <<seqVars, fnVars, recVars, storeVars>>

NextLoop ==
    \/ LoopAddNote
    \/ LoopStart
    \/ \E t \in timers : LoopTick(t)
    \/ \E f \in rafPending : Frame(f)
    \/ LoopAdvance

SpecLoop == Init /\ [][NextLoop]_vars

\* ================================================ the pure functions, applied

FnNotes == {NOTE_NAMES[i] : i \in 1..Len(NOTE_NAMES)} \cup {"H", ""}
FnOctaves == 0..MaxOctave
\* Math.pow returns an implementation-approximated double: where 2^(semis/12)
\* is irrational the result is off its real value by a rounding error, here in
\* units in the last place; a power of two with an integer exponent is exact
Ulps == {-1, 0, 1}
Double(hz, e) ==
    [base |-> hz.base, semis |-> hz.semis,
     ulp |-> IF hz.base = 0 \/ hz.semis % 12 = 0 THEN 0 ELSE e]

FnInputs ==
    [kind : {"freq"}, note : FnNotes, octave : FnOctaves,
     pow : [here : Ulps, up : Ulps]]
    \cup [kind : {"env"}, velocity : {0, DefaultVelocity, 100},
          startTime : {0, ClockStep, RecStep}, duration : {250, 500, 1000}]

\* getNoteFrequency(note, octave) in each of its three copies, and the library
\* copy one octave up
ApplyGetNoteFrequency ==
    /\ fnIn.kind = "freq" /\ fnOut = FnNone
    /\ fnOut' = [kind |-> "freq",
                 lib |-> Double(LibGetNoteFrequency(fnIn.note, fnIn.octave),
                                fnIn.pow.here),
                 libUp |-> Double(LibGetNoteFrequency(fnIn.note, fnIn.octave + 1),
                                  fnIn.pow.up),
                 soundboard |-> Double(SbGetNoteFrequency(fnIn.note, fnIn.octave),
                                       fnIn.pow.here),
                 editor |-> Double(EditorGetNoteFrequency(fnIn.note, fnIn.octave),
                                   fnIn.pow.here)]
    /\ UNCHANGED <<now, seqVars, recVars, storeVars, fnIn>>

\* the gain automation of playNote
ApplyPlayNoteGain ==
    /\ fnIn.kind = "env" /\ fnOut = FnNone
    /\ fnOut' = [kind |-> "env",
                 gain |-> playNoteGain(fnIn.velocity, fnIn.startTime, fnIn.duration)]
    /\ UNCHANGED <<now, seqVars, recVars, storeVars, fnIn>>

InitFn == SeqInit /\ RecInit /\ StoreInit /\ fnIn \in FnInputs /\ fnOut = FnNone

NextFn == ApplyGetNoteFrequency \/ ApplyPlayNoteGain

SpecFn == InitFn /\ [][NextFn]_vars

\* ---- the gain automation of a note dispatched by scheduleNotes, for every
\* tempo of the BPM slider
DispatchInputs ==
    [kind : {"dispatch"}, tempo : MinBpm..MaxBpm, startTime : 0..(totalBeats(1) - 1),
     duration : DefaultDuration..MaxBeats]

\* scheduleNotes' call playNote(note, noteStartTime, noteDuration)
ApplyDispatchGain ==
    /\ fnIn.kind = "dispatch" /\ fnOut = FnNone
    /\ fnOut' = [kind |-> "dispatch",
                 gain |-> playNoteGain(DefaultVelocity,
                                       noteStartTime(fnIn, fnIn.tempo),
                                       noteDuration(fnIn, fnIn.tempo))]
    /\ UNCHANGED <<now, seqVars, recVars, storeVars, fnIn>>

InitDispatch ==
    SeqInit /\ RecInit /\ StoreInit /\ fnIn \in DispatchInputs /\ fnOut = FnNone

SpecDispatch == InitDispatch /\ [][ApplyDispatchGain]_vars

\* 2^n for n >= 0
RECURSIVE Pow2(_)
Pow2(n) == IF n <= 0 THEN 1 ELSE 2 * Pow2(n - 1)

\* The value of a frequency base * 2^(semis/12) in a normal form: the semitones
\* within the octave and the coefficient of 2^(r/12), scaled by 2^OctaveSpan.
OctaveSpan == 2 * a4Octave
HzValue(hz) ==
    [mant |-> hz.base * Pow2((hz.semis \div 12) + OctaveSpan),
     r |-> IF hz.base = 0 THEN 0 ELSE hz.semis % 12]
Twice(v) == [v EXCEPT !.mant = 2 * v.mant]
\* the double itself: the real value and its rounding error
DoubleValue(d) == [mant |-> HzValue(d).mant, r |-> HzValue(d).r, ulp |-> d.ulp]
Exactly440 == [mant |-> 440 * Pow2(OctaveSpan), r |-> 0, ulp |-> 0]
ValidNote(note) == IndexOf(NOTE_NAMES, note) # -1

\* ============================================================== properties

SchedPlays == SelectSeq(plays, LAMBDA p : p.by = "sched")

\* playStep would update the playhead for some requested frame
FrameUpdateActive == \E f \in rafPending : f.isPlaying

\* C1: within one playback session, scheduleNotes hands each note to playNote at
\* most once per pattern playthrough, whatever the timing of the ticks.
C1_AtMostOncePerPlaythrough ==
    \A h1, h2 \in DOMAIN plays :
        (/\ plays[h1].by = "sched" /\ plays[h2].by = "sched"
         /\ plays[h1].id = plays[h2].id
         /\ plays[h1].session = plays[h2].session
         /\ plays[h1].iter = plays[h2].iter) => h1 = h2

\* C2: a note at beat 0 of a 4-beat pattern at 120 bpm has been dispatched
\* exactly 5 times after 10 seconds of playback with ticks every 100 ms.
C2_FiveDispatchesInTenSeconds ==
    (/\ isPlaying /\ bpm = 120 /\ totalBeats(bars) = 4
     /\ Len(notes) = 1 /\ notes[1].startTime = 0 /\ notes[1].duration = 1
     /\ now - lastTimeRef = LoopHorizon)
    => Len(SchedPlays) = 5

\* C3: at most one scheduler interval is active, and only while the sequencer
\* is Playing.
C3_OneTimerOnlyWhilePlaying ==
    /\ Cardinality(timers) <= 1
    /\ timers # {} => (mounted /\ isPlaying)

\* Play was pressed a second time (after a stop) and one interval is running
C3_Witness ==
    /\ starts = 2 /\ isPlaying /\ Cardinality(timers) = 1
    /\ \E t \in timers : t.id = schedulerIntervalRef

\* C4: while the sequencer is stopped the scheduler makes no call of playNote.
C4_NoDispatchAfterStop ==
    [][(~isPlaying) => (SchedPlays' = SchedPlays)]_vars

\* stopped while a tick was due and a note was inside the look-ahead window
C4_Witness ==
    /\ mounted /\ ~isPlaying /\ starts > 0 /\ dueAtStop
    /\ \E i \in 1..Len(notes) : InWindow(notes[i], bpm, now)

\* C5: when stopSequencer has run, the interval and the per-frame update are
\* cancelled and no oscillator started by playNote is still sounding.
C5_StopSilencesAll ==
    [][(mounted' /\ isPlaying /\ ~isPlaying') =>
         (/\ timers' = {}
          /\ ~FrameUpdateActive'
          /\ \A h \in DOMAIN oscState' : ~(Sounding(h))')]_vars

\* the nominal start of a note on the audio clock: its offset from the reference
\* timestamp that startSequencer captured
NominalStart(n, tempo) == lastTimeRef + noteStartTime(n, tempo)

\* the ids a tick ought to dispatch: the notes whose nominal start lies in the
\* look-ahead window ahead of the clock
DueByReference(t) ==
    LET due == SelectSeq(t.notes, LAMBDA n :
                   /\ NominalStart(n, t.bpm) >= now
                   /\ NominalStart(n, t.bpm) < now + lookAheadTime)
    IN [i \in 1..Len(due) |-> due[i].id]

\* C11: on each tick exactly the notes whose start time, counted from the
\* reference timestamp, lies in the 100 ms look-ahead window are dispatched.
C11_DispatchIffInWindow ==
    [][\A t \in timers :
          (\E u \in timers' : u.id = t.id /\ u.due # t.due) =>
              /\ Len(SchedPlays') = Len(SchedPlays) + Len(DueByReference(t))
              /\ \A i \in 1..Len(DueByReference(t)) :
                    SchedPlays'[Len(SchedPlays) + i].id = DueByReference(t)[i]]_vars

\* C12: a note whose start time was still ahead when the scheduler first ran has
\* been dispatched by the time its nominal start has passed, however late the
\* ticks were.
C12_NoNoteSkipped ==
    \A t \in timers : \A i \in 1..Len(t.notes) :
        (/\ isPlaying
         /\ NominalStart(t.notes[i], t.bpm) >= lastTimeRef + SchedulerPeriod + MaxLate
         /\ now > NominalStart(t.notes[i], t.bpm))
        => \E h \in DOMAIN plays :
              /\ plays[h].by = "sched"
              /\ plays[h].id = t.notes[i].id
              /\ plays[h].session = t.id

\* C13: while Playing, the playhead was reset and the reference timestamp taken
\* at the start, the scheduler interval is running, and a per-frame playhead
\* update is in place that will run on the next animation frame.
C13_PlayingKeepsFrameUpdate ==
    isPlaying =>
        /\ lastTimeRef <= now
        /\ \E t \in timers : t.id = schedulerIntervalRef
        /\ FrameUpdateActive

\* the elapsed beats since the reference timestamp modulo the pattern length,
\* in thousandths of a beat
ElapsedBeats == (((now - lastTimeRef) * 1000) \div beatDuration(bpm))
                   % (totalBeats(bars) * 1000)

\* C14: the playhead is within [0, bars x 4) and, once the animation frames
\* requested so far have run, it is the elapsed beats since the reference
\* timestamp modulo the pattern length.
C14_PlayheadIsElapsedBeats ==
    /\ 0 <= currentBeat /\ currentBeat < totalBeats(bars) * 1000
    /\ (isPlaying /\ rafPending = {}) => currentBeat = ElapsedBeats

C16_CompletionOncePerSession ==
    (sessions > 0 /\ ~sbIsRecording /\ ~rcIsRecording) =>
        /\ Len(completed) = 1
        /\ completed[1].notes = recordedSequence

\* C17: every step that enters Recording stamps the start time of both the
\* dialog and the soundboard with the current time and leaves both note buffers
\* empty, whatever they held before.
C17_StartStampsAndEmpties ==
    [][(rcIsRecording' /\ ~rcIsRecording) =>
          /\ startTimeRef' = wallClock
          /\ recordingStartTimeRef' = wallClock
          /\ recordedNotes' = << >>
          /\ recordedSequence' = << >>
          /\ sbIsRecording']_vars

\* a second session was started while the soundboard still held the notes of
\* the first, and no note has been played into it yet
C17_Witness ==
    /\ sessions = 2
    /\ heldAtStart
    /\ rcIsRecording /\ sbIsRecording
    /\ played = << >>
    /\ recordedSequence = << >>
    /\ recordingStartTimeRef > PageLoadTime

\* C18: from the completion callback until the next start of a recording the
\* soundboard is not recording and its note buffer equals the value the callback
\* was handed, however many keys are played in between; and no step taken while
\* nothing is recording changes the buffer, unless it starts a recording.
C18_StoppedBufferIsFrozen ==
    /\ [](completed # << >> =>
            /\ ~sbIsRecording
            /\ recordedSequence = completed[Len(completed)].notes)
    /\ [][(~sbIsRecording /\ ~rcIsRecording /\ ~sbIsRecording') =>
              recordedSequence' = recordedSequence]_vars

\* a key was played after a recording with notes in it was completed
C18_Witness ==
    /\ completed # << >>
    /\ completed[Len(completed)].notes # << >>
    /\ playedAfterStop
    /\ recordedSequence = completed[Len(completed)].notes

\* C19: a recording is started only while neither the dialog nor the soundboard
\* is recording, and whenever both are recording they record the same session:
\* one start timestamp and one buffer content.
C19_OneSessionAtATime ==
    /\ [][sessions' # sessions => (~rcIsRecording /\ ~sbIsRecording)]_vars
    /\ []((rcIsRecording /\ sbIsRecording) =>
            /\ startTimeRef = recordingStartTimeRef
            /\ recordedNotes = recordedSequence)

\* the second session is being recorded, after the first one, which had notes
\* in it, was ended
C19_Witness ==
    /\ sessions = 2
    /\ heldAtStart
    /\ rcIsRecording /\ sbIsRecording
    /\ recordedNotes # << >>

C21_PurchaseReferencesPack ==
    \A i \in DOMAIN purchases : purchases[i].packId \in DOMAIN soundPacks

\* C22: every sound pack with at least one review has as its rating the mean
\* of its reviews' ratings rounded to the nearest integer, halves up.
C22_RatingIsRoundedMean ==
    \A id \in DOMAIN soundPacks :
        LET packReviews == getReviewsByPackId(reviews, id)
        IN packReviews # {} =>
              soundPacks[id].rating =
                  RoundedMean(SumRatings(reviews, packReviews), Cardinality(packReviews))

\* C23: a step that removes a sound pack from the store leaves no sound of that
\* pack, and leaves every sound of any other pack in place and unchanged.
C23_DeleteCascadesToSounds ==
    [][\A id \in PackIds :
          (id \in DOMAIN soundPacks /\ id \notin DOMAIN soundPacks') =>
              /\ getSoundsByPackId(sounds', id) = {}
              /\ DOMAIN sounds' = (DOMAIN sounds) \ getSoundsByPackId(sounds, id)
              /\ \A i \in DOMAIN sounds' : sounds'[i] = sounds[i]]_vars

\* a pack was deleted together with a sound of its own while a sound of another
\* pack is still stored
C23_Witness ==
    /\ response.op = "DELETE soundpack"
    /\ response.status = 200
    /\ response.b > 0
    /\ \E i \in DOMAIN sounds : sounds[i].packId \in DOMAIN soundPacks

\* C25: no user has two purchase records for the same sound pack, and a purchase
\* request for a pair that is already purchased is answered with status 400 and
\* changes neither the purchases nor any pack (so no download is counted).
C25_NoDuplicatePurchase ==
    /\ [](\A i, j \in DOMAIN purchases :
              (/\ purchases[i].userId = purchases[j].userId
               /\ purchases[i].packId = purchases[j].packId) => i = j)
    /\ [][(/\ response'.op = "POST purchase"
            /\ \E i \in DOMAIN purchases :
                  /\ purchases[i].userId = response'.a
                  /\ purchases[i].packId = response'.b) =>
              /\ response'.status = 400
              /\ purchases' = purchases
              /\ soundPacks' = soundPacks]_vars

\* a second request for a purchased pack that is still in the store was refused
C25_Witness ==
    /\ response.op = "POST purchase"
    /\ response.status = 400
    /\ response.b \in DOMAIN soundPacks
    /\ soundPacks[response.b].downloads = 1
    /\ Cardinality({i \in DOMAIN purchases : purchases[i].packId = response.b}) = 1

\* the ids scheduleNotes would hand to playNote at this instant if it examined
\* the pattern as it is now
DueInCurrentPattern(t) ==
    LET due == scheduleNotes(notes, t.bpm, now)
    IN [i \in 1..Len(due) |-> due[i].id]

\* C24: each scheduler tick examines the pattern as it is at the tick, so exactly
\* the notes of the current pattern that are in the look-ahead window are
\* dispatched, whether or not they were in the pattern when playback started.
C24_TickReadsCurrentPattern ==
    [][\A t \in timers :
          (\E u \in timers' : u.id = t.id /\ u.due # t.due) =>
              /\ Len(SchedPlays') = Len(SchedPlays) + Len(DueInCurrentPattern(t))
              /\ \A i \in 1..Len(DueInCurrentPattern(t)) :
                    SchedPlays'[Len(SchedPlays) + i].id = DueInCurrentPattern(t)[i]]_vars

\* the recorder's buffer: the dialog's recordedNotes while it is mounted, else
\* the copy it published in window.__pianoRecordingState
RecorderBuffer ==
    IF showRecordingModal THEN recordedNotes
    ELSE IF globalState = << >> THEN << >>
    ELSE globalState[1].recordedNotes

\* C26: while the soundboard is recording, the recorder's buffer holds the same
\* notes as the soundboard's recordedSequence, also while the dialog is closed.
C26_RecorderBufferFollowsSoundboard ==
    sbIsRecording => RecorderBuffer = recordedSequence

C28_BreakpointsInOrder ==
    fnOut.kind = "dispatch" =>
        \A i \in 1..(Len(fnOut.gain) - 1) : fnOut.gain[i].at <= fnOut.gain[i + 1].at

\* C29: every note of the pattern starts inside the pattern, 0 <= startTime <
\* bars x 4, and lasts at least one grid cell, 4/beatDivision beats.
C29_NotesInsidePattern ==
    \A i \in 1..Len(notes) :
        /\ 0 <= notes[i].startTime
        /\ notes[i].startTime < totalBeats(bars)
        /\ notes[i].duration >= 4 \div beatDivision

\* C30: selectedNote is always null or the id of a note of the pattern, and a
\* step that takes notes out of the pattern either empties it (clearPattern) or
\* is deleteNote of the selected note: exactly that note goes, every other note
\* stays as it was, in its place, and the selection is reset.
C30_SelectionInPattern ==
    /\ [](selectedNote = NULL \/ \E i \in 1..Len(notes) : notes[i].id = selectedNote)
    /\ [][Len(notes') < Len(notes) =>
             \/ notes' = << >> /\ selectedNote' = NULL
             \/ /\ Len(notes') = Len(notes) - 1
                /\ notes' = SelectSeq(notes, LAMBDA n : n.id # selectedNote)
                /\ selectedNote' = NULL]_vars

\* a note was deleted and another one is still in the pattern
C30_Witness ==
    /\ Len(notes) >= 1
    /\ selectedNote = NULL
    /\ nextNoteId > Len(notes) + 1

\* C6: the buffer handed to the completion callback holds exactly the notes the
\* recorder was notified of since it was started, in the order played, each with
\* its time offset from the start of the recording.
C6_BufferIsWhatWasPlayed ==
    \A k \in 1..Len(completed) : completed[k].notes = completed[k].heard

\* three notes at 0, 500 and 1000 ms after the start were delivered
C6_Witness ==
    \E k \in 1..Len(completed) :
        /\ Len(completed[k].notes) = 3
        /\ [i \in 1..3 |-> completed[k].notes[i].time] = <<0, RecStep, 2 * RecStep>>

\* C7: for a note name that is not one of the twelve, every copy of
\* getNoteFrequency returns 440 Hz.
C7_UnknownNoteGives440 ==
    (fnOut.kind = "freq" /\ ~ValidNote(fnIn.note)) =>
        /\ DoubleValue(fnOut.lib) = Exactly440
        /\ DoubleValue(fnOut.soundboard) = Exactly440
        /\ DoubleValue(fnOut.editor) = Exactly440

\* C8 as stated: for a valid note name, one octave up is 12 semitones more and
\* the frequency returned is equal to twice the frequency returned for the octave
\* below.
C8_OctaveUpDoublesExactly ==
    (fnOut.kind = "freq" /\ ValidNote(fnIn.note)) =>
        /\ fnOut.libUp.semis = fnOut.lib.semis + 12
        /\ DoubleValue(fnOut.libUp) = Twice(DoubleValue(fnOut.lib))

\* C8 amended: for a valid note name, one octave up is 12 semitones more, and
\* the frequency is twice the frequency of the octave below up to the rounding
\* of the two results.
C8_OctaveUpDoubles ==
    (fnOut.kind = "freq" /\ ValidNote(fnIn.note)) =>
        /\ fnOut.libUp.semis = fnOut.lib.semis + 12
        /\ HzValue(fnOut.libUp) = Twice(HzValue(fnOut.lib))

\* getNoteFrequency was applied to a C# below A4 and to the C# one octave up
C8_Witness ==
    /\ fnOut.kind = "freq" /\ fnIn.note = "C#" /\ fnIn.octave = 2
    /\ fnOut.lib.base = 440 /\ fnOut.lib.semis < 0
    /\ fnOut.libUp.semis = fnOut.lib.semis + 12

\* C9: the semitone offset of a valid note is (octave-4)*12 + (index - 9), and
\* getNoteFrequency("A", 4) has offset 0 and is exactly 440.
C9_OffsetFromA4 ==
    (fnOut.kind = "freq" /\ ValidNote(fnIn.note)) =>
        /\ fnOut.lib.semis = (fnIn.octave - 4) * 12 + (IndexOf(NOTE_NAMES, fnIn.note) - 9)
        /\ (fnIn.note = "A" /\ fnIn.octave = 4) =>
              (fnOut.lib.semis = 0 /\ DoubleValue(fnOut.lib) = Exactly440)

\* getNoteFrequency("A", 4) was applied
C9_Witness ==
    fnOut.kind = "freq" /\ fnIn.note = "A" /\ fnIn.octave = 4 /\ fnOut.lib.semis = 0

====
